---- MODULE Spec2Model ----
(***************************************************************************)
(* Level-scoped storage of forward AD gradients                            *)
(* (torch/csrc/autograd/forward_grad.h).                                   *)
(*                                                                         *)
(* ForwardADLevel objects ("scopes") are kept in a process-wide registry   *)
(* and hold the set grads_ of the ForwardGrad objects ("holders")          *)
(* registered with them.  A ForwardGrad maps level index -> tensor in      *)
(* content_.  Threads call get_next_idx, release_idx, set_value, reset     *)
(* and clear concurrently; every mutex acquisition is a step of its own,   *)
(* the registry operations (one lookup or update under the registry lock)  *)
(* are single steps.                                                       *)
(*                                                                         *)
(* The header declares get_next_idx, release_idx, get_by_idx,              *)
(* try_get_by_idx, ~ForwardADLevel and value without their bodies; these   *)
(* follow the design document: release_idx takes the level out of the      *)
(* registry and then, member by member, removes the member from grads_     *)
(* and calls its reset(idx_, false), holding one mutex at a time.          *)
(* A thread that looked a level up keeps the object alive (shared_ptr)     *)
(* and may still insert into or erase from it after its release.           *)
(***************************************************************************)
EXTENDS Integers, FiniteSets, Sequences, TLC

\* ------------------------------------------------------------------ bounds
NumThreads == 2
NumHolders == 1
NumValues == 2
\* ForwardADLevel objects constructed in a run
MaxLevels == 2
\* calls other than get_next_idx started in a run
MaxCalls == 3

\* #define EXPECTED_MAX_LEVEL 2 : the number of levels the data structures are
\* sized for; the model has that many level indices
EXPECTED_MAX_LEVEL == 2

Threads == 1..NumThreads
Holders == 1..NumHolders
Indices == 0..(EXPECTED_MAX_LEVEL - 1)
\* the tensors a caller stores; undef_grad is none of them
Values == 1..NumValues
\* every ForwardADLevel object ever constructed has its own identity
LevelIds == 1..MaxLevels

\* a null shared_ptr<ForwardADLevel>
nullptr == 0
\* no thread owns the mutex
Unlocked == 0

\* the process-wide undefined tensor returned for an absent entry
undef_grad == 0

VARIABLES
    active,       \* registry: index -> the ForwardADLevel active at it, or nullptr
    nextLevel,    \* identity of the next ForwardADLevel object to be constructed
    idx_,         \* ForwardADLevel::idx_ of every object
    grads_,       \* ForwardADLevel::grads_ of every object
    levelMutex,   \* ForwardADLevel::mutex_ : the thread holding it, or Unlocked
    content_,     \* ForwardGrad::content_ : a map level index -> tensor
    gradMutex,    \* ForwardGrad::mutex_ : the thread holding it, or Unlocked
    cleared,      \* holder -> "no" | "running" | "done" : progress of clear()
    pc,           \* position of every thread
    call,         \* the call a thread is in (or that has just thrown)
    level,        \* the shared_ptr<ForwardADLevel> a thread holds
    levels_idx,   \* clear()'s local levels_idx, the indices still to visit
    calls,        \* number of calls other than get_next_idx started so far
    issued,       \* history: index -> number of get_next_idx results not yet released
    origin,       \* history: holder -> (index -> the level object the entry was set against)
    released,     \* history: the level objects whose release_idx has returned
    hadEntry,     \* history: level object -> holders with an entry for it when release_idx was called
    usedHolders,  \* history: the holders 1..usedHolders have been passed to a call
    usedValues,   \* history: the tensors 1..usedValues have been passed to set_value
    ret           \* what the value, contains or empty call of a thread returns

vars == <<active, nextLevel, idx_, grads_, levelMutex, content_, gradMutex, cleared,
          pc, call, level, levels_idx, calls, issued, origin, released, hadEntry,
          usedHolders, usedValues, ret>>

NoCall == [level |-> 0, op |-> "none", self |-> 0, value |-> 0]
Call(o, h, l, v) == [level |-> l, op |-> o, self |-> h, value |-> v]

\* the empty unordered_map
EmptyMap == [x \in {} |-> 0]

\* ------------------------------------------------------- pure operations

\* mutant: the lookup returns the first level ever built at the index, live or not
try_get_by_idx_stale(idx) ==
    IF \E s \in 1..(nextLevel - 1) : idx_[s] = idx
    THEN CHOOSE s \in 1..(nextLevel - 1) :
             idx_[s] = idx /\ \A r \in 1..(s - 1) : idx_[r] # idx
    ELSE nullptr

\* ForwardADLevel::get_by_idx / try_get_by_idx : the level active at idx, if any
try_get_by_idx(idx) == active[idx]

\* mutant: the lookup does not check that a level is live at the index
get_by_idx_unchecked(idx) == FALSE

\* get_by_idx throws exactly when the lookup finds nothing
get_by_idx_throws(idx) == active[idx] = nullptr

\* mutant: get_next_idx hands out any index, also one a live level holds
AnyIndex == Indices

\* the indices get_next_idx may hand out: those no live level holds
FreeIndices == {i \in Indices : active[i] = nullptr}

\* std::unordered_set::insert / erase on grads_
insert(g, grad) == g \cup {grad}

\* mutant: erase() leaves grads_ as it is
erase_none(g, grad) == g

erase(g, grad) == g \ {grad}

\* std::unordered_map::insert({level, value}) : keeps an existing entry
content_insert(c, l, v) == IF l \in DOMAIN c THEN c ELSE (l :> v) @@ c

\* mutant: the erase removes nothing
content_erase_none(c, l) == c

\* mutant: the erase empties the map
content_erase_all(c, l) == [x \in {} |-> 0]

\* std::unordered_map::erase(level)
content_erase(c, l) == [x \in (DOMAIN c) \ {l} |-> c[x]]

\* ForwardGrad::contains
contains(h, l) == l \in DOMAIN content_[h]

\* mutant: the lookup ignores the level and returns whatever entry it finds
value_any_level(h, l) ==
    IF content_[h] = EmptyMap THEN undef_grad
    ELSE content_[h][CHOOSE x \in DOMAIN content_[h] : TRUE]

\* ForwardGrad::value
value(h, l) == IF l \in DOMAIN content_[h] THEN content_[h][l] ELSE undef_grad

\* ForwardGrad::empty
empty(h) == DOMAIN content_[h] = {}

\* ------------------------------------------------------------------ Init
Init ==
    /\ active = [i \in Indices |-> nullptr]
    /\ nextLevel = 1
    /\ idx_ = [s \in LevelIds |-> 0]
    /\ grads_ = [s \in LevelIds |-> {}]
    /\ levelMutex = [s \in LevelIds |-> Unlocked]
    /\ content_ = [h \in Holders |-> EmptyMap]
    /\ gradMutex = [h \in Holders |-> Unlocked]
    /\ cleared = [h \in Holders |-> "no"]
    /\ pc = [t \in Threads |-> "idle"]
    /\ call = [t \in Threads |-> NoCall]
    /\ level = [t \in Threads |-> nullptr]
    /\ levels_idx = [t \in Threads |-> {}]
    /\ calls = 0
    /\ issued = [i \in Indices |-> 0]
    /\ origin = [h \in Holders |-> EmptyMap]
    /\ released = {}
    /\ hadEntry = [s \in LevelIds |-> {}]
    /\ usedHolders = 0
    /\ usedValues = 0
    /\ ret = [t \in Threads |-> undef_grad]

\* threads are interchangeable: a call is run by the first thread that is in none
FirstIdle(t) == pc[t] = "idle" /\ \A u \in Threads : u < t => pc[u] # "idle"

\* a thread may start a call
CanCall(t) == FirstIdle(t) /\ calls < MaxCalls

\* holders are interchangeable until a call names them, and so are tensors: a
\* call names a holder (a tensor) named before, or the first one not yet named
Max(a, b) == IF a > b THEN a ELSE b
NameHolder(h) == h <= usedHolders + 1 /\ usedHolders' = Max(usedHolders, h)
NameValue(v) == v <= usedValues + 1 /\ usedValues' = Max(usedValues, v)

\* the thread leaves its call
Return(t) ==
    /\ pc' = [pc EXCEPT ![t] = "idle"]
    /\ call' = [call EXCEPT ![t] = NoCall]
    /\ level' = [level EXCEPT ![t] = nullptr]

\* the call throws UnknownScope out of the registry lookup
Throw(t, c) ==
    /\ pc' = [pc EXCEPT ![t] = "throw"]
    /\ call' = [call EXCEPT ![t] = c]
    /\ level' = [level EXCEPT ![t] = nullptr]

\* the owner of the holder still uses it: clear() has not been called on it
InUse(h) == cleared[h] = "no"

\* the variables of the registry and of the level objects
UNCHANGED_levels == UNCHANGED <<active, nextLevel, idx_, grads_, levelMutex, issued>>
UNCHANGED_grads == UNCHANGED <<content_, gradMutex, origin>>
UNCHANGED_release == UNCHANGED <<released, hadEntry>>
UNCHANGED_names == UNCHANGED <<usedHolders, usedValues, ret>>

\* ------------------------------------------------ ForwardADLevel (registry)

\* get_next_idx(): construct a level at an index no live level holds, register it
get_next_idx(t) ==
    /\ FirstIdle(t)
    /\ nextLevel <= MaxLevels
    /\ \E i \in FreeIndices :
          /\ active' = [active EXCEPT ![i] = nextLevel]
          /\ idx_' = [idx_ EXCEPT ![nextLevel] = i]
          /\ issued' = [issued EXCEPT ![i] = @ + 1]
    /\ nextLevel' = nextLevel + 1
    /\ Return(t)
    /\ UNCHANGED <<grads_, levelMutex, cleared, levels_idx, calls>>
    /\ UNCHANGED_grads /\ UNCHANGED_release /\ UNCHANGED_names

\* release_idx(idx), first step: take the level out of the registry, or throw
release_idx(t, i) ==
    /\ CanCall(t)
    /\ calls' = calls + 1
    /\ IF get_by_idx_throws(i)
       THEN /\ Throw(t, Call("release_idx", 0, i, 0))
            /\ UNCHANGED <<active, issued, hadEntry>>
       ELSE /\ active' = [active EXCEPT ![i] = nullptr]
            /\ issued' = [issued EXCEPT ![i] = @ - 1]
            /\ hadEntry' = [hadEntry EXCEPT ![active[i]] =
                  {h \in Holders : i \in DOMAIN content_[h] /\ origin[h][i] = active[i]}]
            /\ pc' = [pc EXCEPT ![t] = "rel_level_lock"]
            /\ call' = [call EXCEPT ![t] = Call("release_idx", 0, i, 0)]
            /\ level' = [level EXCEPT ![t] = active[i]]
    /\ UNCHANGED <<nextLevel, idx_, grads_, levelMutex, cleared, levels_idx, released>>
    /\ UNCHANGED_grads /\ UNCHANGED_names

\* a thread acquires the mutex_ of the level it holds
LockLevel(t, from, to) ==
    /\ pc[t] = from
    /\ levelMutex[level[t]] = Unlocked
    /\ levelMutex' = [levelMutex EXCEPT ![level[t]] = t]
    /\ pc' = [pc EXCEPT ![t] = to]
    /\ UNCHANGED <<active, nextLevel, idx_, grads_, issued, cleared, call, level,
                   levels_idx, calls>>
    /\ UNCHANGED_grads /\ UNCHANGED_release /\ UNCHANGED_names

\* a thread acquires the mutex_ of the holder its call works on
LockGrad(t, from, to) ==
    /\ pc[t] = from
    /\ gradMutex[call[t].self] = Unlocked
    /\ gradMutex' = [gradMutex EXCEPT ![call[t].self] = t]
    /\ pc' = [pc EXCEPT ![t] = to]
    /\ UNCHANGED <<content_, origin, cleared, call, level, levels_idx, calls>>
    /\ UNCHANGED_levels /\ UNCHANGED_release /\ UNCHANGED_names

\* the released level detaches from its members, one at a time
ReleaseLevelLock(t) == LockLevel(t, "rel_level_lock", "rel_level_take")

\* under the level's mutex: take one member out of grads_, or finish
ReleaseLevelTake(t) ==
    /\ pc[t] = "rel_level_take"
    /\ levelMutex' = [levelMutex EXCEPT ![level[t]] = Unlocked]
    /\ IF grads_[level[t]] = {}
       THEN /\ released' = released \cup {level[t]}
            /\ Return(t)
            /\ UNCHANGED grads_
       ELSE /\ \E h \in grads_[level[t]] :
                  /\ grads_' = [grads_ EXCEPT ![level[t]] = erase(@, h)]
                  /\ call' = [call EXCEPT ![t].self = h]
            /\ pc' = [pc EXCEPT ![t] = "rel_grad_lock"]
            /\ UNCHANGED <<level, released>>
    /\ UNCHANGED <<active, nextLevel, idx_, issued, cleared, levels_idx, calls, hadEntry>>
    /\ UNCHANGED_grads /\ UNCHANGED_names

\* the member's reset(idx_, /* update_level */ false): lock, erase, unlock
ReleaseGradLock(t) == LockGrad(t, "rel_grad_lock", "rel_grad_content")

\* mutant: reset() keeps the key and stores the undefined tensor under it
EraseContentMark(t, l) ==
    /\ content_' = [content_ EXCEPT ![call[t].self] =
                       [x \in DOMAIN @ |-> IF x = l THEN undef_grad ELSE @[x]]]
    /\ gradMutex' = [gradMutex EXCEPT ![call[t].self] = Unlocked]
    /\ UNCHANGED origin

\* mutant: reset() empties content_ instead of erasing one key
EraseContentClear(t, l) ==
    /\ content_' = [content_ EXCEPT ![call[t].self] = EmptyMap]
    /\ origin' = [origin EXCEPT ![call[t].self] = EmptyMap]
    /\ gradMutex' = [gradMutex EXCEPT ![call[t].self] = Unlocked]

\* reset()'s last two lines: content_.erase(level) under the holder's mutex
EraseContent(t, l) ==
    /\ content_' = [content_ EXCEPT ![call[t].self] = content_erase(@, l)]
    /\ origin' = [origin EXCEPT ![call[t].self] = content_erase(@, l)]
    /\ gradMutex' = [gradMutex EXCEPT ![call[t].self] = Unlocked]

ReleaseGradContent(t) ==
    /\ pc[t] = "rel_grad_content"
    /\ EraseContent(t, idx_[level[t]])
    /\ pc' = [pc EXCEPT ![t] = "rel_level_lock"]
    /\ UNCHANGED <<cleared, call, level, levels_idx, calls>>
    /\ UNCHANGED_levels /\ UNCHANGED_release /\ UNCHANGED_names

\* ------------------------------------------------------------ ForwardGrad

\* mutant: set_value stores the value before it looks the level up
set_value_store_first(t, h, v, l) ==
    /\ CanCall(t)
    /\ InUse(h)
    /\ NameHolder(h) /\ NameValue(v)
    /\ gradMutex[h] = Unlocked
    /\ calls' = calls + 1
    /\ content_' = [content_ EXCEPT ![h] = content_insert(@, l, v)]
    /\ origin' = [origin EXCEPT ![h] = content_insert(@, l, active[l])]
    /\ IF get_by_idx_throws(l)
       THEN Throw(t, Call("set_value", h, l, v))
       ELSE /\ pc' = [pc EXCEPT ![t] = "set_level_lock"]
            /\ call' = [call EXCEPT ![t] = Call("set_value", h, l, v)]
            /\ level' = [level EXCEPT ![t] = try_get_by_idx(l)]
    /\ UNCHANGED <<gradMutex, cleared, levels_idx, ret>>
    /\ UNCHANGED_levels /\ UNCHANGED_release

\* set_value(value, level), first step: ForwardADLevel::get_by_idx(level)
set_value(t, h, v, l) ==
    /\ CanCall(t)
    /\ InUse(h)
    /\ NameHolder(h) /\ NameValue(v)
    /\ calls' = calls + 1
    /\ IF get_by_idx_throws(l)
       THEN Throw(t, Call("set_value", h, l, v))
       ELSE /\ pc' = [pc EXCEPT ![t] = "set_level_lock"]
            /\ call' = [call EXCEPT ![t] = Call("set_value", h, l, v)]
            /\ level' = [level EXCEPT ![t] = try_get_by_idx(l)]
    /\ UNCHANGED <<cleared, levels_idx, ret>>
    /\ UNCHANGED_levels /\ UNCHANGED_grads /\ UNCHANGED_release

\* ->insert(shared_from_this()) : lock the level's mutex ...
SetLevelLock(t) == LockLevel(t, "set_level_lock", "set_level_insert")

\* ... grads_.insert(grad), unlock
SetLevelInsert(t) ==
    /\ pc[t] = "set_level_insert"
    /\ grads_' = [grads_ EXCEPT ![level[t]] = insert(@, call[t].self)]
    /\ levelMutex' = [levelMutex EXCEPT ![level[t]] = Unlocked]
    /\ pc' = [pc EXCEPT ![t] = "set_lock"]
    /\ UNCHANGED <<active, nextLevel, idx_, issued, cleared, call, level, levels_idx, calls>>
    /\ UNCHANGED_grads /\ UNCHANGED_release /\ UNCHANGED_names

\* std::lock_guard<std::mutex> lock(mutex_)
SetLock(t) == LockGrad(t, "set_lock", "set_content")

\* content_.insert({level, value}), unlock, return
StoreContent(t) ==
    /\ content_' = [content_ EXCEPT ![call[t].self] =
                       content_insert(@, call[t].level, call[t].value)]
    /\ origin' = [origin EXCEPT ![call[t].self] =
                       content_insert(@, call[t].level, level[t])]
    /\ gradMutex' = [gradMutex EXCEPT ![call[t].self] = Unlocked]

SetContent(t) ==
    /\ pc[t] = "set_content"
    /\ StoreContent(t)
    /\ Return(t)
    /\ UNCHANGED <<cleared, levels_idx, calls>>
    /\ UNCHANGED_levels /\ UNCHANGED_release /\ UNCHANGED_names

\* reset(level, update_level = true), first step: ForwardADLevel::get_by_idx(level)
reset(t, h, l) ==
    /\ CanCall(t)
    /\ InUse(h)
    /\ NameHolder(h)
    /\ calls' = calls + 1
    /\ IF get_by_idx_throws(l)
       THEN Throw(t, Call("reset", h, l, 0))
       ELSE /\ pc' = [pc EXCEPT ![t] = "reset_level_lock"]
            /\ call' = [call EXCEPT ![t] = Call("reset", h, l, 0)]
            /\ level' = [level EXCEPT ![t] = try_get_by_idx(l)]
    /\ UNCHANGED <<cleared, levels_idx, usedValues, ret>>
    /\ UNCHANGED_levels /\ UNCHANGED_grads /\ UNCHANGED_release

\* ->erase(shared_from_this()) : lock the level's mutex ...
ResetLevelLock(t) == LockLevel(t, "reset_level_lock", "reset_level_erase")

\* mutant: erase() returns without unlocking the level's mutex
EraseGradKeepLocked(t, from, to) ==
    /\ pc[t] = from
    /\ grads_' = [grads_ EXCEPT ![level[t]] = erase(@, call[t].self)]
    /\ pc' = [pc EXCEPT ![t] = to]
    /\ UNCHANGED <<active, nextLevel, idx_, levelMutex, issued, cleared, call, level,
                   levels_idx, calls>>
    /\ UNCHANGED_grads /\ UNCHANGED_release /\ UNCHANGED_names

\* ... grads_.erase(grad), unlock
EraseGrad(t, from, to) ==
    /\ pc[t] = from
    /\ grads_' = [grads_ EXCEPT ![level[t]] = erase(@, call[t].self)]
    /\ levelMutex' = [levelMutex EXCEPT ![level[t]] = Unlocked]
    /\ pc' = [pc EXCEPT ![t] = to]
    /\ UNCHANGED <<active, nextLevel, idx_, issued, cleared, call, level, levels_idx, calls>>
    /\ UNCHANGED_grads /\ UNCHANGED_release /\ UNCHANGED_names

ResetLevelErase(t) == EraseGrad(t, "reset_level_erase", "reset_lock")

\* std::lock_guard<std::mutex> lock(mutex_)
ResetLock(t) == LockGrad(t, "reset_lock", "reset_content")

\* content_.erase(level), unlock, return
ResetContent(t) ==
    /\ pc[t] = "reset_content"
    /\ EraseContent(t, call[t].level)
    /\ Return(t)
    /\ UNCHANGED <<cleared, levels_idx, calls>>
    /\ UNCHANGED_levels /\ UNCHANGED_release /\ UNCHANGED_names

\* some thread is inside a call of the owner on the holder
Busy(h) ==
    \E u \in Threads : /\ pc[u] \notin {"idle", "throw"}
                       /\ call[u].op \in {"set_value", "reset", "reset_no_update",
                                           "value", "contains", "empty"}
                       /\ call[u].self = h

\* clear(), first step: called once, by the owner's destructor, which no
\* set_value or reset on the holder overlaps or follows; lock the holder's mutex
clear(t, h) ==
    /\ CanCall(t)
    /\ InUse(h)
    /\ ~Busy(h)
    /\ NameHolder(h)
    /\ gradMutex[h] = Unlocked
    /\ gradMutex' = [gradMutex EXCEPT ![h] = t]
    /\ cleared' = [cleared EXCEPT ![h] = "running"]
    /\ calls' = calls + 1
    /\ pc' = [pc EXCEPT ![t] = "clear_snapshot"]
    /\ call' = [call EXCEPT ![t] = Call("clear", h, 0, 0)]
    /\ UNCHANGED <<content_, origin, level, levels_idx, usedValues, ret>>
    /\ UNCHANGED_levels /\ UNCHANGED_release

\* mutant: the lock_guard of clear() lives until clear() returns
ClearSnapshotKeepLocked(t) ==
    /\ pc[t] = "clear_snapshot"
    /\ levels_idx' = [levels_idx EXCEPT ![t] = DOMAIN content_[call[t].self]]
    /\ pc' = [pc EXCEPT ![t] = "clear_loop"]
    /\ UNCHANGED <<content_, gradMutex, origin, cleared, call, level, calls>>
    /\ UNCHANGED_levels /\ UNCHANGED_release /\ UNCHANGED_names

\* for (auto& c: content_) levels_idx.push_back(c.first); unlock
ClearSnapshot(t) ==
    /\ pc[t] = "clear_snapshot"
    /\ levels_idx' = [levels_idx EXCEPT ![t] = DOMAIN content_[call[t].self]]
    /\ gradMutex' = [gradMutex EXCEPT ![call[t].self] = Unlocked]
    /\ pc' = [pc EXCEPT ![t] = "clear_loop"]
    /\ UNCHANGED <<content_, origin, cleared, call, level, calls>>
    /\ UNCHANGED_levels /\ UNCHANGED_release /\ UNCHANGED_names

\* mutant: clear() looks the level up with get_by_idx, which throws
clear_lookup_get(l_idx) == active[l_idx] = nullptr

\* the lookup clear() makes never throws: it is the "try" one
clear_lookup_throws(l_idx) == FALSE

\* for (auto l_idx: levels_idx) { level = try_get_by_idx(l_idx); if (level) ...
\* (the map's iteration order is unspecified: any remaining index comes next)
ClearLoop(t) ==
    /\ pc[t] = "clear_loop"
    /\ IF levels_idx[t] = {}
       THEN /\ cleared' = [cleared EXCEPT ![call[t].self] = "done"]
            /\ Return(t)
            /\ UNCHANGED levels_idx
       ELSE /\ \E l_idx \in levels_idx[t] :
                  /\ levels_idx' = [levels_idx EXCEPT ![t] = @ \ {l_idx}]
                  /\ IF clear_lookup_throws(l_idx)
                     THEN Throw(t, call[t])
                     ELSE /\ level' = [level EXCEPT ![t] = try_get_by_idx(l_idx)]
                          /\ pc' = [pc EXCEPT ![t] =
                                IF try_get_by_idx(l_idx) = nullptr
                                THEN "clear_loop" ELSE "clear_level_lock"]
                          /\ UNCHANGED call
            /\ UNCHANGED cleared
    /\ UNCHANGED calls
    /\ UNCHANGED_levels /\ UNCHANGED_grads /\ UNCHANGED_release /\ UNCHANGED_names

\* level->erase(shared_from_this())
ClearLevelLock(t) == LockLevel(t, "clear_level_lock", "clear_level_erase")
ClearLevelErase(t) == EraseGrad(t, "clear_level_erase", "clear_loop")

\* the UnknownScope exception leaves the call
Unwind(t) ==
    /\ pc[t] = "throw"
    /\ Return(t)
    /\ UNCHANGED <<cleared, levels_idx, calls>>
    /\ UNCHANGED_levels /\ UNCHANGED_grads /\ UNCHANGED_release /\ UNCHANGED_names

\* ------------------------------------------------------------------ Next
Step(t) ==
    \/ Unwind(t)
    \/ get_next_idx(t)
    \/ \E i \in Indices : release_idx(t, i)
    \/ ReleaseLevelLock(t)
    \/ ReleaseLevelTake(t)
    \/ ReleaseGradLock(t)
    \/ ReleaseGradContent(t)
    \/ \E h \in Holders, v \in Values, l \in Indices : set_value(t, h, v, l)
    \/ SetLevelLock(t)
    \/ SetLevelInsert(t)
    \/ SetLock(t)
    \/ SetContent(t)
    \/ \E h \in Holders, l \in Indices : reset(t, h, l)
    \/ ResetLevelLock(t)
    \/ ResetLevelErase(t)
    \/ ResetLock(t)
    \/ ResetContent(t)
    \/ \E h \in Holders : clear(t, h)
    \/ ClearSnapshot(t)
    \/ ClearLoop(t)
    \/ ClearLevelLock(t)
    \/ ClearLevelErase(t)

Next == \E t \in Threads : Step(t)

Spec == Init /\ [][Next]_vars

\* calls made one at a time: a thread steps only while every other thread is in no call
SeqNext == \E t \in Threads :
    /\ \A u \in Threads \ {t} : pc[u] = "idle"
    /\ Step(t)

SeqSpec == Init /\ [][SeqNext]_vars

\* ------------------------------------------- the calls that read a holder

\* a C++ bool: true is 1, false is 0
Bool(b) == IF b THEN 1 ELSE 0

\* the call returns its result to the caller
ReturnResult(t) ==
    /\ pc[t] = "ret"
    /\ Return(t)
    /\ ret' = [ret EXCEPT ![t] = undef_grad]
    /\ UNCHANGED <<cleared, levels_idx, calls, usedHolders, usedValues>>
    /\ UNCHANGED_levels /\ UNCHANGED_grads /\ UNCHANGED_release

\* a call of the owner that makes no registry lookup begins at pc "to"
BeginLocal(t, h, c, to) ==
    /\ CanCall(t)
    /\ InUse(h)
    /\ NameHolder(h)
    /\ calls' = calls + 1
    /\ pc' = [pc EXCEPT ![t] = to]
    /\ call' = [call EXCEPT ![t] = c]
    /\ UNCHANGED <<cleared, level, levels_idx, usedValues, ret>>
    /\ UNCHANGED_levels /\ UNCHANGED_grads /\ UNCHANGED_release

\* the read of a call is done: unlock if the call locked, hand the result over
Result(t, r) ==
    /\ ret' = [ret EXCEPT ![t] = r]
    /\ pc' = [pc EXCEPT ![t] = "ret"]
    /\ UNCHANGED <<content_, origin, cleared, call, level, levels_idx, calls,
                   usedHolders, usedValues>>
    /\ UNCHANGED_levels /\ UNCHANGED_release

\* contains(level): lock_guard, content_.count(level) > 0
contains_call(t, h, l) == BeginLocal(t, h, Call("contains", h, l, 0), "contains_lock")
ContainsLock(t) == LockGrad(t, "contains_lock", "contains_read")
ContainsRead(t) ==
    /\ pc[t] = "contains_read"
    /\ gradMutex' = [gradMutex EXCEPT ![call[t].self] = Unlocked]
    /\ Result(t, Bool(contains(call[t].self, call[t].level)))

\* value(level): the lookup under the holder's mutex, the entry or undef_grad
value_call(t, h, l) == BeginLocal(t, h, Call("value", h, l, 0), "value_lock")
ValueLock(t) == LockGrad(t, "value_lock", "value_read")
ValueRead(t) ==
    /\ pc[t] = "value_read"
    /\ gradMutex' = [gradMutex EXCEPT ![call[t].self] = Unlocked]
    /\ Result(t, value(call[t].self, call[t].level))

\* some other thread is inside a critical section of the holder's mutex_
Racing(t, h) == gradMutex[h] \notin {Unlocked, t}

\* empty(): return content_.empty(), with no lock: a read that overlaps a
\* writer's critical section is a data race, and may return either answer
empty_call(t, h) == BeginLocal(t, h, Call("empty", h, 0, 0), "empty_read")
EmptyRead(t) ==
    /\ pc[t] = "empty_read"
    /\ \E r \in BOOLEAN :
          /\ Racing(t, call[t].self) \/ r = empty(call[t].self)
          /\ Result(t, Bool(r))
    /\ UNCHANGED gradMutex

\* mutant: reset(level, false) looks the level up as reset(level, true) does
reset_no_update_lookup(t, h, l) ==
    /\ CanCall(t)
    /\ InUse(h)
    /\ NameHolder(h)
    /\ calls' = calls + 1
    /\ IF get_by_idx_throws(l)
       THEN Throw(t, Call("reset_no_update", h, l, 0))
       ELSE /\ pc' = [pc EXCEPT ![t] = "reset_level_lock"]
            /\ call' = [call EXCEPT ![t] = Call("reset_no_update", h, l, 0)]
            /\ level' = [level EXCEPT ![t] = try_get_by_idx(l)]
    /\ UNCHANGED <<cleared, levels_idx, usedValues, ret>>
    /\ UNCHANGED_levels /\ UNCHANGED_grads /\ UNCHANGED_release

\* reset(level, update_level = false): the if (update_level) block is skipped
reset_no_update(t, h, l) ==
    BeginLocal(t, h, Call("reset_no_update", h, l, 0), "reset_lock")

FullStep(t) ==
    \/ Step(t)
    \/ ReturnResult(t)
    \/ \E h \in Holders, l \in Indices : contains_call(t, h, l)
    \/ ContainsLock(t)
    \/ ContainsRead(t)
    \/ \E h \in Holders, l \in Indices : value_call(t, h, l)
    \/ ValueLock(t)
    \/ ValueRead(t)
    \/ \E h \in Holders : empty_call(t, h)
    \/ EmptyRead(t)
    \/ \E h \in Holders, l \in Indices : reset_no_update(t, h, l)

\* every operation of the two classes, on any interleaving
FullNext == \E t \in Threads : FullStep(t)

FullSpec == Init /\ [][FullNext]_vars

\* every operation, calls made one at a time
FullSeqNext == \E t \in Threads :
    /\ \A u \in Threads \ {t} : pc[u] = "idle"
    /\ FullStep(t)

FullSeqSpec == Init /\ [][FullSeqNext]_vars

\* a thread inside a call takes its next step
Continue(t) == pc[t] # "idle" /\ FullStep(t)

\* the scheduler is fair to every thread that is inside a call
FairSpec == FullSpec /\ \A t \in Threads : WF_vars(Continue(t))

\* ------------------------------------------------------------ properties

\* no thread is inside a call
Quiescent == \A t \in Threads : pc[t] \in {"idle", "throw"}

\* the holder still has the entry that was set against level object s
StaleEntry(h, s) == idx_[s] \in DOMAIN content_[h] /\ origin[h][idx_[s]] = s

\* C1: release completeness. A holder whose set_value for level i had completed
\* when release_idx(i) was called has no entry left for that level once
\* release_idx(i) has returned (and every call on the holder has returned too).
ReleaseCompleteness ==
    \A s \in released : \A h \in hadEntry[s] :
        (InUse(h) /\ ~Busy(h)) => ~StaleEntry(h, s)

\* C2: no resurrection. Once release_idx(i) has returned and no set_value or
\* reset on the holder is in progress, the holder has no entry that was set
\* against the released level: a set_value racing the release either threw or
\* left nothing behind.
NoResurrection ==
    \A s \in released : \A h \in Holders :
        (InUse(h) /\ ~Busy(h)) => ~StaleEntry(h, s)

\* C3: recycle safety. When get_next_idx hands out an index, no holder in use
\* has an entry under it (contains is false, value is undef_grad) and the new
\* level has no members; in particular when the index was released before by a
\* level the holder had set a value for.
RecycleSafety ==
    [][\A i \in Indices :
          (active[i] = nullptr /\ active'[i] # nullptr) =>
              /\ grads_'[active'[i]] = {}
              /\ \A h \in Holders :
                    InUse(h) => (~contains(h, i)' /\ value(h, i)' = undef_grad)]_vars

\* C3 witness: an index is active again after the release of a level under
\* which a holder still in use had an entry
RecycleSafetyWitness ==
    \E s \in released : \E h \in hadEntry[s] :
        /\ InUse(h)
        /\ active[idx_[s]] \notin {nullptr, s}
        /\ ~contains(h, idx_[s])

\* C4: index uniqueness. No index is returned by get_next_idx while a level
\* holds it: every index has at most one unreleased result, exactly when a level
\* is active at it, and no level object is active at two indices.
IndexUniqueness ==
    /\ \A i \in Indices :
          /\ issued[i] \in {0, 1}
          /\ issued[i] = 1 <=> active[i] # nullptr
          /\ active[i] # nullptr => idx_[active[i]] = i
    /\ \A i, j \in Indices : (i # j /\ active[i] # nullptr) => active[i] # active[j]

\* C4 witness: get_next_idx was called while a level was active, and two levels
\* are active at once
IndexUniquenessWitness ==
    \E i, j \in Indices :
        i # j /\ active[i] # nullptr /\ active[j] # nullptr /\ issued[i] + issued[j] = 2

\* C5: set_value overwrites. When set_value(v, i) has stored, value(i) is v,
\* also when the holder had an entry for i before.
SetOverwrites ==
    [][\A t \in Threads, h \in Holders, v \in Values, l \in Indices :
          (pc[t] = "set_content" /\ pc'[t] = "idle" /\ call[t] = Call("set_value", h, l, v))
              => value(h, l)' = v]_vars

\* C6: set_value on an index that is not active throws UnknownScope and changes
\* neither a holder's entries nor a level's members; on an active index it does
\* not throw.
SetUnknownScope ==
    [][\A t \in Threads, h \in Holders, v \in Values, l \in Indices :
          set_value(t, h, v, l) =>
              IF active[l] = nullptr
              THEN /\ pc'[t] = "throw"
                   /\ call'[t] = Call("set_value", h, l, v)
                   /\ UNCHANGED <<content_, grads_, active>>
              ELSE pc'[t] # "throw"]_vars

\* C6 witness: a set_value on a released index has thrown
SetUnknownScopeWitness ==
    \E t \in Threads :
        /\ pc[t] = "throw"
        /\ call[t].op = "set_value"
        /\ \E s \in released : idx_[s] = call[t].level

\* C7: bidirectional consistency. With no call in progress, a holder in use has
\* an entry for an active index i exactly when the level at i has it in grads_.
BidirectionalConsistency ==
    Quiescent =>
        \A h \in Holders : \A i \in Indices :
            (InUse(h) /\ active[i] # nullptr) =>
                (contains(h, i) <=> h \in grads_[active[i]])

\* a step of thread t inside the call it is in
Moves(t) == <<pc[t], levels_idx[t], level[t]>>' # <<pc[t], levels_idx[t], level[t]>>

\* C8 as stated: clear() never throws, and once it has returned the holder has
\* no entries.
ClearLeavesNoEntries ==
    /\ \A t \in Threads : call[t].op = "clear" => pc[t] # "throw"
    /\ \A h \in Holders : cleared[h] = "done" => empty(h)

\* C8 amended: clear() never throws, whatever releases run beside it (a level
\* the try lookup does not find is skipped), and no step of clear() changes the
\* holder's entries: it only takes the holder out of the levels' grads_.
ClearTolerant ==
    /\ [](\A t \in Threads : call[t].op = "clear" => pc[t] # "throw")
    /\ [][\A t \in Threads :
             (pc[t] \notin {"idle", "throw"} /\ call[t].op = "clear" /\ Moves(t))
                 => /\ content_' = content_
                    /\ pc'[t] # "throw"
                    /\ \A s \in LevelIds : grads_'[s] \subseteq grads_[s]]_vars

\* C8 witness: clear() is about to look up an index whose level, which the
\* holder had an entry for, has been released in the meantime
ClearTolerantWitness ==
    \E t \in Threads :
        /\ pc[t] = "clear_loop"
        /\ \E l \in levels_idx[t] :
              /\ active[l] = nullptr
              /\ \E s \in released : idx_[s] = l /\ call[t].self \in hadEntry[s]

\* C9: clear() unregisters. Once clear() has returned (no set_value on the
\* holder overlaps or follows it), no active level has the holder in grads_.
ClearUnregisters ==
    \A h \in Holders :
        cleared[h] = "done" =>
            \A i \in Indices : active[i] # nullptr => h \notin grads_[active[i]]

\* C10: per-level independence. set_value(v, A) on a holder without an entry
\* for A stores v under A and leaves the other entries alone; no step of
\* reset(A) changes the holder's entry for an index B # A or the members of the
\* level at B, and when reset(A) returns the entry for A is gone.
PerLevelIndependence ==
    [][\A t \in Threads, h \in Holders, A \in Indices :
          /\ (pc[t] = "set_content" /\ pc'[t] = "idle" /\ call[t].self = h
                /\ call[t].level = A /\ ~contains(h, A))
                => /\ value(h, A)' = call[t].value
                   /\ \A B \in Indices \ {A} :
                         contains(h, B)' = contains(h, B) /\ value(h, B)' = value(h, B)
          /\ (pc[t] \notin {"idle", "throw"} /\ call[t].op = "reset" /\ call[t].self = h
                /\ call[t].level = A /\ Moves(t))
                => /\ \A B \in Indices \ {A} :
                         /\ contains(h, B)' = contains(h, B)
                         /\ value(h, B)' = value(h, B)
                         /\ active'[B] = active[B]
                         /\ active[B] # nullptr => grads_'[active[B]] = grads_[active[B]]
                   /\ pc'[t] = "idle" => ~contains(h, A)']_vars

\* C10 witness: reset(A) is at its last step on a holder that holds different
\* values for A and for B and is a member of the level at B
PerLevelIndependenceWitness ==
    \E t \in Threads, h \in Holders, B \in Indices :
        /\ pc[t] = "reset_content"
        /\ call[t].self = h
        /\ B # call[t].level
        /\ contains(h, call[t].level)
        /\ contains(h, B)
        /\ value(h, B) # value(h, call[t].level)
        /\ active[B] # nullptr
        /\ h \in grads_[active[B]]

\* C11: value(level) never throws, whether or not the level is live; it returns
\* the tensor stored for the level if the holder has an entry for it and the one
\* undefined tensor undef_grad otherwise, which no stored tensor is equal to.
ValueLookup ==
    [][\A t \in Threads : \A h \in Holders, l \in Indices :
          call[t] = Call("value", h, l, 0) =>
             /\ pc'[t] # "throw"
             /\ pc[t] = "value_read" /\ pc'[t] = "ret" =>
                   /\ l \in DOMAIN content_[h] => ret'[t] = content_[h][l]
                   /\ l \notin DOMAIN content_[h] => ret'[t] = undef_grad
                   /\ ret'[t] = undef_grad <=> l \notin DOMAIN content_[h]]_vars

\* value() has returned the undefined tensor for the index of a released level
ValueLookupWitness ==
    \E t \in Threads :
        /\ pc[t] = "ret"
        /\ call[t].op = "value"
        /\ ret[t] = undef_grad
        /\ active[call[t].level] = nullptr
        /\ \E s \in released : idx_[s] = call[t].level

\* C12: get_by_idx(idx), as set_value and reset call it, returns the live level
\* whose index is idx and throws when no level is live at idx; try_get_by_idx(idx),
\* as clear() calls it, returns the same level or nullptr and never throws; no
\* lookup returns a level whose release has returned, also when its index is
\* in use again.
RegistryLookup ==
    [][\A t \in Threads :
          /\ pc[t] = "idle" /\ call'[t].op \in {"set_value", "reset"} =>
                IF active[call'[t].level] = nullptr
                THEN pc'[t] = "throw"
                ELSE /\ pc'[t] # "throw"
                     /\ level'[t] = active[call'[t].level]
                     /\ idx_[level'[t]] = call'[t].level
          /\ pc[t] = "clear_loop" /\ levels_idx'[t] # levels_idx[t] =>
                \E l_idx \in levels_idx[t] \ levels_idx'[t] :
                   /\ pc'[t] # "throw"
                   /\ IF active[l_idx] = nullptr
                      THEN pc'[t] = "clear_loop" /\ level'[t] = level[t]
                      ELSE level'[t] = active[l_idx] /\ idx_[level'[t]] = l_idx
          /\ level'[t] # level[t] /\ level'[t] # nullptr =>
                /\ level'[t] \notin released
                /\ level'[t] = active[idx_[level'[t]]]]_vars

\* a lookup has returned the level that now lives at the index of a released level
RegistryLookupWitness ==
    \E t \in Threads :
        /\ pc[t] \in {"set_level_lock", "reset_level_lock", "clear_level_lock"}
        /\ \E s \in released : s # level[t] /\ idx_[s] = idx_[level[t]]

\* the program counters at which a thread asks for a level's mutex_
LevelLockPc(p) ==
    p \in {"rel_level_lock", "set_level_lock", "reset_level_lock", "clear_level_lock"}

\* the program counters at which a thread asks for a holder's mutex_
GradLockPc(p) ==
    p \in {"rel_grad_lock", "set_lock", "reset_lock", "contains_lock", "value_lock"}

\* thread t is blocked on a mutex that thread u holds
WaitsFor(t, u) ==
    /\ u # t
    /\ \/ LevelLockPc(pc[t]) /\ levelMutex[level[t]] = u
       \/ GradLockPc(pc[t]) /\ gradMutex[call[t].self] = u

\* C13: under a fair scheduler every call of get_next_idx, release_idx,
\* set_value, reset, value, contains, empty and clear returns, normally or by
\* throwing, and no thread is ever blocked on a thread that is itself blocked.
EveryCallReturns ==
    /\ \A t \in Threads : (pc[t] # "idle") ~> (pc[t] = "idle")
    /\ [](\A t, u \in Threads : WaitsFor(t, u) => \A w \in Threads : ~WaitsFor(u, w))

\* a thread is blocked on a mutex another thread holds
EveryCallReturnsWitness ==
    \E t, u \in Threads : WaitsFor(t, u)

\* thread t holds the mutex_ of some holder / of some level
HoldsGrad(t) == \E h \in Holders : gradMutex[h] = t
HoldsLevel(t) == \E s \in LevelIds : levelMutex[s] = t

\* C14: no thread holds a holder's mutex while it holds or asks for a level's
\* mutex, and none holds a level's mutex while it holds or asks for a holder's:
\* in set_value, reset, clear and in the resets a released level makes.
NoNestedLocks ==
    \A t \in Threads :
        /\ HoldsGrad(t) => ~HoldsLevel(t) /\ ~LevelLockPc(pc[t])
        /\ HoldsLevel(t) => ~HoldsGrad(t) /\ ~GradLockPc(pc[t])

\* a released level resets a member: the thread holds the holder's mutex, and
\* the level's mutex, which it held a step before, is not held by it
NoNestedLocksWitness ==
    \E t \in Threads :
        /\ pc[t] = "rel_grad_content"
        /\ gradMutex[call[t].self] = t
        /\ levelMutex[level[t]] # t

\* the program counters at which the next step of a thread reads or writes content_
ContentAccessPc(p) ==
    p \in {"set_content", "reset_content", "rel_grad_content", "clear_snapshot",
           "contains_read", "value_read", "empty_read"}

\* the program counters at which the next step of a thread inserts into content_
\* or erases from it
ContentWritePc(p) == p \in {"set_content", "reset_content", "rel_grad_content"}

\* C15: every access to the content_ of a holder is made under the holder's
\* mutex_ (set_value, reset, value, contains, empty and the snapshot of clear),
\* so that no read, the one of empty() included, overlaps an insert, an erase
\* or another access to the content_ of the same holder by another thread.
ExclusiveAccess ==
    \A t, u \in Threads :
        /\ t # u
        /\ ContentAccessPc(pc[t])
        /\ ContentWritePc(pc[u])
        => call[u].self # call[t].self

\* C16: reset(level, update_level = false) makes no registry lookup and never
\* throws, also when no level is live at the index; its steps leave the registry,
\* the grads_ of every level and the holder's entries of the other indices as
\* they are, and when it returns the holder has no entry for the index.
ResetLocalOnly ==
    [][\A t \in Threads : \A h \in Holders, l \in Indices :
          /\ call'[t] = Call("reset_no_update", h, l, 0)
          /\ pc'[t] # pc[t]
          => /\ pc'[t] \in {"reset_lock", "reset_content"}
             /\ level'[t] = nullptr
             /\ UNCHANGED <<active, grads_, content_>>]_vars
    /\ [][\A t \in Threads : \A h \in Holders, l \in Indices :
          /\ call[t] = Call("reset_no_update", h, l, 0)
          /\ pc[t] = "reset_content"
          /\ pc'[t] # pc[t]
          => /\ pc'[t] = "idle"
             /\ UNCHANGED <<active, grads_>>
             /\ l \notin DOMAIN content_'[h]
             /\ \A j \in Indices \ {l} :
                   /\ j \in DOMAIN content_'[h] <=> j \in DOMAIN content_[h]
                   /\ j \in DOMAIN content_[h] => content_'[h][j] = content_[h][j]
             /\ \A g \in Holders \ {h} : content_'[g] = content_[g]]_vars

\* reset(level, false) is about to erase at an index at which no level is live
ResetLocalOnlyWitness ==
    \E t \in Threads :
        /\ pc[t] = "reset_content"
        /\ call[t].op = "reset_no_update"
        /\ active[call[t].level] = nullptr

\* C17: reset(level), with update_level left at true, throws when no level is
\* live at the index and then leaves the entries and the memberships as they
\* are; when a level is live there it does not throw, whether or not the holder
\* has an entry, and at its return the holder has no entry for the index and is
\* not in the grads_ of the level at the index.
ResetDefault ==
    [][\A t \in Threads : \A h \in Holders, l \in Indices :
          /\ pc[t] = "idle" /\ call'[t] = Call("reset", h, l, 0) =>
                IF active[l] = nullptr
                THEN pc'[t] = "throw" /\ UNCHANGED <<active, grads_, content_>>
                ELSE pc'[t] = "reset_level_lock"
          /\ pc[t] = "throw" /\ call[t] = Call("reset", h, l, 0) /\ pc'[t] # pc[t] =>
                UNCHANGED <<active, grads_, content_>>
          /\ call[t] = Call("reset", h, l, 0) /\ pc[t] # "throw" /\ pc'[t] # pc[t] =>
                /\ pc'[t] # "throw"
                /\ pc'[t] = "idle" =>
                      /\ l \notin DOMAIN content_'[h]
                      /\ active'[l] # nullptr
                      /\ h \notin grads_'[active'[l]]]_vars

\* reset(level) at a live index is about to return for a holder with no entry
ResetDefaultWitness ==
    \E t \in Threads :
        /\ pc[t] = "reset_content"
        /\ call[t].op = "reset"
        /\ active[call[t].level] # nullptr
        /\ call[t].level \notin DOMAIN content_[call[t].self]

\* C18: entries are deleted, not marked: empty() returns true exactly when the
\* holder has no entry; a holder no call has named yet has none; and between
\* calls every entry of a holder in use is one set at a level that is still live
\* and still has the holder in its grads_, so that once every index the holder
\* was set on has been reset or released, empty() is true again.
EmptyIffNoEntries ==
    /\ [][\A t \in Threads : \A h \in Holders :
             /\ call[t] = Call("empty", h, 0, 0)
             /\ pc[t] = "empty_read"
             /\ pc'[t] = "ret"
             => /\ ret'[t] = Bool(TRUE) <=> DOMAIN content_[h] = {}
                /\ ret'[t] = Bool(FALSE) <=> DOMAIN content_[h] # {}]_vars
    /\ [](\A h \in Holders : h > usedHolders => DOMAIN content_[h] = {})
    /\ [](Quiescent =>
             \A h \in Holders : \A l \in DOMAIN content_[h] :
                 InUse(h) => /\ active[l] # nullptr
                             /\ origin[h][l] = active[l]
                             /\ h \in grads_[active[l]])

\* empty() has returned true for a holder whose entry a release has removed
EmptyIffNoEntriesWitness ==
    \E t \in Threads :
        /\ pc[t] = "ret"
        /\ call[t].op = "empty"
        /\ ret[t] = Bool(TRUE)
        /\ \E s \in released : call[t].self \in hadEntry[s]

\* C19: release_idx(idx) at an index at which no level is live, never issued or
\* released before, throws, and the call leaves the live levels, their grads_
\* and the entries of every holder as they are.
ReleaseUnknownScope ==
    [][\A t \in Threads : \A i \in Indices :
          /\ pc[t] = "idle" /\ call'[t] = Call("release_idx", 0, i, 0)
                /\ active[i] = nullptr =>
                   pc'[t] = "throw" /\ UNCHANGED <<active, grads_, content_>>
          /\ pc[t] = "throw" /\ call[t] = Call("release_idx", 0, i, 0)
                /\ pc'[t] # pc[t] =>
                   pc'[t] = "idle" /\ UNCHANGED <<active, grads_, content_>>]_vars

\* release_idx has thrown at the index of a level released before
ReleaseUnknownScopeWitness ==
    \E t \in Threads :
        /\ pc[t] = "throw"
        /\ call[t].op = "release_idx"
        /\ active[call[t].level] = nullptr
        /\ \E s \in released : idx_[s] = call[t].level

\* the entry of holder h for index j is the same before and after the step
SameEntry(h, j) ==
    /\ j \in DOMAIN content_'[h] <=> j \in DOMAIN content_[h]
    /\ j \in DOMAIN content_[h] => content_'[h][j] = content_[h][j]

\* C20: the steps of release_idx(i) take only the level at i out of the
\* registry, change the grads_ of no other level, and erase only entries for
\* index i, of holders they found in the grads_ of the released level; every
\* entry for another index keeps its value.
ReleaseFrame ==
    [][\A t \in Threads : \A i \in Indices :
          /\ pc'[t] # pc[t]
          /\ \/ call[t].op = "release_idx" /\ call[t].level = i /\ pc[t] # "throw"
             \/ pc[t] = "idle" /\ call'[t] = Call("release_idx", 0, i, 0)
                   /\ pc'[t] # "throw"
          => /\ \A j \in Indices \ {i} : active'[j] = active[j]
             /\ IF pc[t] = "idle" THEN active'[i] = nullptr ELSE active'[i] = active[i]
             /\ \A s \in LevelIds :
                   grads_'[s] # grads_[s] =>
                      /\ s = level[t] /\ idx_[s] = i
                      /\ grads_'[s] = grads_[s] \ {call'[t].self}
                      /\ call'[t].self \in grads_[s]
             /\ \A h \in Holders :
                   /\ \A j \in Indices \ {i} : SameEntry(h, j)
                   /\ ~SameEntry(h, i) => h = call[t].self /\ pc[t] = "rel_grad_content"]_vars

\* a released level is about to reset a holder that has an entry for the index
\* of another, live, level as well
ReleaseFrameWitness ==
    \E t \in Threads :
        /\ pc[t] = "rel_grad_content"
        /\ idx_[level[t]] \in DOMAIN content_[call[t].self]
        /\ \E j \in Indices \ {idx_[level[t]]} :
              /\ active[j] # nullptr
              /\ j \in DOMAIN content_[call[t].self]

====
